---- MODULE Spec2Model ----
(***************************************************************************)
(* Failover RPC client facade (package ethclient): construction (New),     *)
(* teardown (Close), the failover policy (shouldFailover), the metrics     *)
(* recorder (metrics.Observe / Register) and the dispatch sequence that    *)
(* every facade operation repeats: call the primary, observe, classify     *)
(* the error, call the backup, observe, return.                            *)
(*                                                                         *)
(* Two specifications share the variables:                                 *)
(*   Spec     the dispatch of operations on a constructed facade;          *)
(*   SpecNew  the construction / teardown lifecycle against one process-   *)
(*            wide metrics registry.                                       *)
(* time.Now() and the latency value are not modelled; the histogram is     *)
(* modelled by its per-label sample count.                                 *)
(***************************************************************************)
EXTENDS Integers, Sequences, FiniteSets, TLC

\* ------------------------------------------------------------------------
\* Bounds of the exploration
\* ------------------------------------------------------------------------

\* invocations served by one facade in one behaviour
MaxCalls == 2

\* constructions attempted in one behaviour of SpecNew
MaxNews == 2

\* invocations in flight at once in SpecConc
NumConc == 2

\* ------------------------------------------------------------------------
\* Config (src/unnamed/part_000)
\* ------------------------------------------------------------------------

nameLenLimit == 32

Name31 == "abcdefghijklmnopqrstuvwxyz01234"

Name32 == "abcdefghijklmnopqrstuvwxyz012345"

\* names offered to construction: empty, ordinary, longest accepted, shortest rejected
Names == {"", "nodereal", "alchemy", Name31, Name32}

Urls == {"", "https://rpc.example"}

Config == [EnablePrometheus : BOOLEAN, RpcUrl : Urls, RpcName : Names,
           FailoverRpcUrl : Urls, FailoverRpcName : Names]

NilError == "nil"

\* variant: the length test is off by one
ValidOffByOne(c) ==
  IF Len(c.RpcName) > nameLenLimit THEN "invalid RpcName"
  ELSE IF Len(c.FailoverRpcName) > nameLenLimit THEN "invalid RpcFailoverName"
  ELSE NilError

\* Config.Valid: the error it returns, NilError when the config is accepted
Valid(c) ==
  IF Len(c.RpcName) >= nameLenLimit THEN "invalid RpcName"
  ELSE IF Len(c.FailoverRpcName) >= nameLenLimit THEN "invalid RpcFailoverName"
  ELSE NilError

\* ------------------------------------------------------------------------
\* Errors a physical client can return, and the context that was passed
\* ------------------------------------------------------------------------

Canceled == "context.Canceled"

DeadlineExceeded == "context.DeadlineExceeded"

\* the HTTP transport reports an aborted request as *url.Error wrapping ctx.Err()
UrlErrCanceled == "url.Error{context.Canceled}"

UrlErrDeadline == "url.Error{context.DeadlineExceeded}"

ErrTransport == "dial tcp: connection refused"

ErrRPC == "rpc error -32000"

\* state of the caller's context: not done, cancelled, or past its deadline
CtxStates == {"live", "canceled", "deadline"}

\* errors of a call that do not depend on the context
RemoteErrors == {ErrTransport, ErrRPC}

\* what a physical client call can return as its error under a context:
\* a context error (bare or wrapped) only once that context is done
ErrorsUnder(c) ==
  {NilError} \cup RemoteErrors \cup
  (IF c = "canceled" THEN {Canceled, UrlErrCanceled}
   ELSE IF c = "deadline" THEN {DeadlineExceeded, UrlErrDeadline}
   ELSE {})

\* ------------------------------------------------------------------------
\* Failover policy (src/ethclient.go, client.shouldFailover)
\* ------------------------------------------------------------------------

\* variant: the two branches of the policy swapped
shouldFailoverSwapped(err) ==
  IF err = DeadlineExceeded \/ err = Canceled THEN TRUE ELSE FALSE

shouldFailover(err) ==
  IF err = DeadlineExceeded \/ err = Canceled THEN FALSE ELSE TRUE

\* ------------------------------------------------------------------------
\* The facade's operations
\* ------------------------------------------------------------------------

Ops == {"BalanceAt", "BlockByHash", "BlockByNumber", "BlockNumber",
        "CallContract", "CallContractAtHash", "ChainID", "CodeAt",
        "EstimateGas", "FilterLogs", "HeaderByHash", "HeaderByNumber",
        "NetworkID", "NonceAt", "PeerCount", "PendingBalanceAt",
        "PendingCallContract", "PendingCodeAt", "PendingNonceAt",
        "PendingStorageAt", "PendingTransactionCount", "SendTransaction",
        "StorageAt", "SubscribeFilterLogs", "SubscribeNewHead",
        "SuggestGasPrice", "SuggestGasTipCap", "SyncProgress",
        "TransactionByHash", "TransactionCount", "TransactionInBlock",
        "TransactionReceipt", "TransactionSender"}

\* the method string each operation passes to metrics.Observe (both attempts)
ObservedMethod(op) ==
  IF op = "TransactionByHash" THEN "BalanceAtTransactionByHash" ELSE op

\* the method each operation calls on the main client c.m
PrimaryMethod(op) == op

\* variant: StorageAt fails over to the pending-state read of the backup
SecondaryMethodOther(op) == IF op = "StorageAt" THEN "PendingStorageAt" ELSE op

\* the method each operation calls on the backup client c.b
SecondaryMethod(op) == op

\* operations invoked after a facade's first invocation (the first one ranges over Ops)
LaterOps == {"BalanceAt", "SendTransaction", "TransactionByHash"}

\* argument tuples a caller passes
Args == {"args1", "args2"}

NoResult == "void"

\* result values a physical client returns next to its error
Results(op) == IF op = "SendTransaction" THEN {NoResult} ELSE {"v1", "v2"}

\* variant: the nil check after the primary attempt is missing
AfterPrimaryUnchecked(e) == "Failed"

\* `if err != nil { ... } return r, nil` after the primary attempt
AfterPrimary(e) == IF e = NilError THEN "Success" ELSE "Failed"

\* variant: the second attempt goes to the main client again
FailoverConnMain == "m"

\* the connection the second attempt is made on: c.b
FailoverConn == "b"

\* variant: the backup's result is returned with the primary's error
FailoverReturnStale(p, s) == [r |-> s.r, err |-> p.err]

\* `r, err = c.b.Op(...); return r, err`: p is the primary's pair, s the backup's
FailoverReturn(p, s) == s

\* strconv.FormatBool
FormatBool(b) == IF b THEN "true" ELSE "false"

\* ------------------------------------------------------------------------
\* State
\* ------------------------------------------------------------------------

VARIABLES
  facade,    \* the constructed client [live, cfg, metrics, app, chain], or NoFacade
  conn,      \* the two connection handles of the latest construction
  registry,  \* collectors registered with the default Prometheus registerer
  lastNew,   \* inputs and outcome of the latest call of New
  news,      \* number of calls of New so far
  req,       \* CounterVec rpc_request_total: label tuple -> count
  latency,   \* HistogramVec rpc_latency_milliseconds: label tuple -> samples
  invoked,   \* invocations started on the facade
  pc,        \* position of the current invocation
  op,        \* its operation
  args,      \* its arguments
  ctx,       \* state of its context
  pres,      \* (r, err) returned by the main client
  sres,      \* (r, err) returned by the backup client
  ret,       \* (r, err) returned to the caller
  trace,     \* physical calls and observations of the invocation, in order
  env,       \* the process environment: the five variables under the prefix in use
  loaded,    \* outcome of ConfigFromEnv / ConfigFromEnvPrefix
  calls      \* invocations in flight concurrently: call id -> its record

lifeVars == <<facade, conn, registry, lastNew, news>>

callVars == <<req, latency, invoked, pc, op, args, ctx, pres, sres, ret, trace>>

extraVars == <<env, loaded, calls>>

vars == <<facade, conn, registry, lastNew, news,
          req, latency, invoked, pc, op, args, ctx, pres, sres, ret, trace,
          env, loaded, calls>>

\* the zero Config value
NoConfig == [EnablePrometheus |-> FALSE, RpcUrl |-> "", RpcName |-> "",
             FailoverRpcUrl |-> "", FailoverRpcName |-> ""]

NoFacade == [live |-> FALSE, cfg |-> NoConfig, metrics |-> "nil", app |-> "", chain |-> ""]

NoPair == [r |-> "-", err |-> "-"]

NoNew == [called |-> FALSE, app |-> "", chain |-> "", cfg |-> NoConfig,
          dialM |-> FALSE, dialB |-> FALSE, outcome |-> "none", before |-> {},
          verr |-> "none"]

EmptyVec == [l \in {} |-> 0]

AppNames == {"my-app", "other-app"}

ChainNames == {"ethereum"}

\* ------------------------------------------------------------------------
\* Metrics recorder (src/prometheus.go)
\* ------------------------------------------------------------------------

\* newMetrics: the two collectors, identified by name and constant labels
newMetrics(appName, chainName) ==
  {<<"rpc_request_total", appName, chainName>>,
   <<"rpc_latency_milliseconds", appName, chainName>>}

\* prometheus.MustRegister panics when an equal collector is already registered
RegisterPanics(reg, appName, chainName) ==
  newMetrics(appName, chainName) \cap reg # {}

\* metrics.Register on a registry that holds none of the two collectors
Register(reg, appName, chainName) == reg \cup newMetrics(appName, chainName)

\* metrics.Unregister
Unregister(reg, appName, chainName) == reg \ newMetrics(appName, chainName)

\* vec.With(labels).Inc() / .Observe(v): the child is created on first use
VecAdd(vec, l) ==
  IF l \in DOMAIN vec THEN [vec EXCEPT ![l] = @ + 1] ELSE vec @@ (l :> 1)

\* the label values metrics.Observe builds: method, client, success
ObserveLabels(method, client, successful) ==
  <<method, client, FormatBool(successful)>>

\* ------------------------------------------------------------------------
\* Construction and teardown (src/ethclient.go, New and client.Close)
\* ------------------------------------------------------------------------

\* ethclient.Dial(url): an empty URL selects the IPC transport with an empty
\* socket path, which cannot be dialled; any other URL may or may not connect
DialCanSucceed(url) == url # ""

\* the outcome of New: "facade", "error" or "panic"
NewOutcome(reg, appName, chain, cfg, dialM, dialB) ==
  IF Valid(cfg) # NilError THEN "error"
  ELSE IF ~dialM THEN "error"
  ELSE IF ~dialB THEN "error"
  ELSE IF cfg.EnablePrometheus /\ RegisterPanics(reg, appName, chain) THEN "panic"
  ELSE "facade"

\* the handles New leaves behind: the main one is dialled first, the backup
\* one only when the main dial succeeded; New closes neither on failure
NewConn(cfg, dialM, dialB) ==
  IF Valid(cfg) # NilError THEN [m |-> "none", b |-> "none"]
  ELSE IF ~dialM THEN [m |-> "none", b |-> "none"]
  ELSE IF ~dialB THEN [m |-> "open", b |-> "none"]
  ELSE [m |-> "open", b |-> "open"]

\* the client value New returns
NewFacade(appName, chain, cfg) ==
  [live |-> TRUE, cfg |-> cfg,
   metrics |-> IF cfg.EnablePrometheus THEN "set" ELSE "nil",
   app |-> appName, chain |-> chain]

New(appName, chain, cfg, dialM, dialB) ==
  LET out == NewOutcome(registry, appName, chain, cfg, dialM, dialB) IN
  /\ ~facade.live
  /\ news < MaxNews
  /\ dialM => DialCanSucceed(cfg.RpcUrl)
  /\ dialB => DialCanSucceed(cfg.FailoverRpcUrl)
  /\ news' = news + 1
  /\ conn' = NewConn(cfg, dialM, dialB)
  /\ facade' = IF out = "facade" THEN NewFacade(appName, chain, cfg) ELSE NoFacade
  /\ registry' = IF out = "facade" /\ cfg.EnablePrometheus
                 THEN Register(registry, appName, chain) ELSE registry
  /\ lastNew' = [called |-> TRUE, app |-> appName, chain |-> chain, cfg |-> cfg,
                 dialM |-> dialM, dialB |-> dialB, outcome |-> out,
                 before |-> registry, verr |-> Valid(cfg)]
  /\ req' = EmptyVec
  /\ latency' = EmptyVec
  /\ UNCHANGED <<invoked, pc, op, args, ctx, pres, sres, ret, trace>>
  /\ UNCHANGED extraVars

\* variant: only the main handle is closed
CloseConnsMainOnly(c) == [m |-> "closed", b |-> c.b]

\* c.m.Close(); c.b.Close(): Close of a handle returns nothing, both are issued
CloseConns(c) == [m |-> "closed", b |-> "closed"]

\* client.Close: closes both handles; the collectors stay registered
Close ==
  /\ facade.live
  /\ conn' = CloseConns(conn)
  /\ facade' = NoFacade
  /\ UNCHANGED <<registry, lastNew, news>>
  /\ UNCHANGED callVars
  /\ UNCHANGED extraVars

\* ------------------------------------------------------------------------
\* Dispatch of one operation (src/ethclient.go, lines 84-714)
\* ------------------------------------------------------------------------

Returned == {"Success", "NoFailover", "Terminal"}

\* variant: once the backup has served a call, later calls start on the backup
PrimaryConnSticky ==
  IF \E l \in DOMAIN req : l[2] = facade.cfg.FailoverRpcName /\ l[3] = "true"
  THEN "b" ELSE "m"

\* the connection the first attempt is made on: c.m
PrimaryConn == "m"

\* the caller enters an operation: t := time.Now(); c.m.Op(ctx, args...) is issued
Invoke(o, a) ==
  /\ facade.live
  /\ pc \in {"Idle"} \cup Returned
  /\ invoked < MaxCalls
  /\ o \in (IF invoked = 0 THEN Ops ELSE LaterOps)
  /\ invoked' = invoked + 1
  /\ pc' = "PrimaryInFlight"
  /\ op' = o
  /\ args' = a
  /\ ctx' = "live"
  /\ pres' = NoPair
  /\ sres' = NoPair
  /\ ret' = NoPair
  /\ trace' = << <<"call", PrimaryConn, PrimaryMethod(o), a>> >>
  /\ UNCHANGED <<req, latency>>
  /\ UNCHANGED lifeVars
  /\ UNCHANGED extraVars

\* the caller's context is cancelled or passes its deadline while a physical call runs
CtxDone(c) ==
  /\ pc \in {"PrimaryInFlight", "FailoverInFlight"}
  /\ ctx = "live"
  /\ c # "live"
  /\ ctx' = c
  /\ UNCHANGED <<req, latency, invoked, pc, op, args, pres, sres, ret, trace>>
  /\ UNCHANGED lifeVars
  /\ UNCHANGED extraVars

\* c.m.Op returns (r, err); c.metrics.Observe(label, t, c.cfg.RpcName, err == nil);
\* err == nil returns (r, nil).  Observe dereferences c.metrics: a nil recorder panics.
PrimaryReturn(r, e) ==
  /\ pc = "PrimaryInFlight"
  /\ e \in ErrorsUnder(ctx)
  /\ r \in Results(op)
  /\ pres' = [r |-> r, err |-> e]
  /\ IF facade.metrics = "nil"
     THEN /\ pc' = "Panicked"
          /\ UNCHANGED <<req, latency, ret, trace>>
     ELSE LET l == ObserveLabels(ObservedMethod(op), facade.cfg.RpcName, e = NilError) IN
          /\ req' = VecAdd(req, l)
          /\ latency' = VecAdd(latency, l)
          /\ trace' = Append(trace, <<"observe", l[1], l[2], l[3]>>)
          /\ IF AfterPrimary(e) = "Success"
             THEN pc' = "Success" /\ ret' = [r |-> r, err |-> NilError]
             ELSE pc' = "Failed" /\ UNCHANGED ret
  /\ UNCHANGED <<invoked, op, args, ctx, sres>>
  /\ UNCHANGED lifeVars
  /\ UNCHANGED extraVars

\* err != nil: !shouldFailover(err) returns (r, err); otherwise t = time.Now()
\* and c.b.Op(ctx, args...) is issued
Classify ==
  /\ pc = "Failed"
  /\ IF ~shouldFailover(pres.err)
     THEN /\ pc' = "NoFailover"
          /\ ret' = pres
          /\ UNCHANGED trace
     ELSE /\ pc' = "FailoverInFlight"
          /\ trace' = Append(trace, <<"call", FailoverConn, SecondaryMethod(op), args>>)
          /\ UNCHANGED ret
  /\ UNCHANGED <<req, latency, invoked, op, args, ctx, pres, sres>>
  /\ UNCHANGED lifeVars
  /\ UNCHANGED extraVars

\* c.b.Op returns (r, err); c.metrics.Observe(label, t, c.cfg.FailoverRpcName, err == nil);
\* return (r, err)
SecondaryReturn(r, e) ==
  /\ pc = "FailoverInFlight"
  /\ e \in ErrorsUnder(ctx)
  /\ r \in Results(op)
  /\ sres' = [r |-> r, err |-> e]
  /\ IF facade.metrics = "nil"
     THEN /\ pc' = "Panicked"
          /\ UNCHANGED <<req, latency, ret, trace>>
     ELSE LET l == ObserveLabels(ObservedMethod(op), facade.cfg.FailoverRpcName, e = NilError) IN
          /\ req' = VecAdd(req, l)
          /\ latency' = VecAdd(latency, l)
          /\ trace' = Append(trace, <<"observe", l[1], l[2], l[3]>>)
          /\ pc' = "Terminal"
          /\ ret' = FailoverReturn(pres, [r |-> r, err |-> e])
  /\ UNCHANGED <<invoked, op, args, ctx, pres>>
  /\ UNCHANGED lifeVars
  /\ UNCHANGED extraVars

\* ------------------------------------------------------------------------
\* Concurrent dispatch: several callers inside operations of one facade.
\* The locals t, r, err of an operation live in calls[i]; the facade and the
\* two vectors are shared.  CounterVec and HistogramVec are safe for
\* concurrent use, so an observation is one step.
\* ------------------------------------------------------------------------

ConcIds == 1..NumConc

\* operations, results and context events of the concurrent exploration
ConcOps == {"BalanceAt", "TransactionByHash"}

ConcResults == {"v1"}

ConcCtx == {"canceled"}

IdleCall == [pc |-> "Idle", op |-> "-", args |-> "-", ctx |-> "live",
             pres |-> NoPair, sres |-> NoPair, ret |-> NoPair, trace |-> << >>]

scalarVars == <<invoked, pc, op, args, ctx, pres, sres, ret, trace>>

\* variant: the operation's locals are fields shared by all callers
LocalsShared(cs, i) == cs[1]

\* the locals (ctx, args, r, err) of invocation i are its own
Locals(cs, i) == cs[i]

CInvoke(i, o, a) ==
  /\ facade.live
  /\ calls[i].pc = "Idle"
  /\ calls' = [calls EXCEPT ![i] =
                 [IdleCall EXCEPT !.pc = "PrimaryInFlight", !.op = o, !.args = a,
                                  !.trace = << <<"call", PrimaryConn, PrimaryMethod(o), a>> >>]]
  /\ UNCHANGED <<req, latency, env, loaded>>
  /\ UNCHANGED scalarVars
  /\ UNCHANGED lifeVars

CCtxDone(i, c) ==
  /\ calls[i].pc \in {"PrimaryInFlight", "FailoverInFlight"}
  /\ calls[i].ctx = "live"
  /\ c # "live"
  /\ calls' = [calls EXCEPT ![i].ctx = c]
  /\ UNCHANGED <<req, latency, env, loaded>>
  /\ UNCHANGED scalarVars
  /\ UNCHANGED lifeVars

CPrimaryReturn(i, r, e) ==
  LET me == Locals(calls, i) IN
  /\ calls[i].pc = "PrimaryInFlight"
  /\ e \in ErrorsUnder(calls[i].ctx)
  /\ r \in Results(calls[i].op)
  /\ IF facade.metrics = "nil"
     THEN /\ calls' = [calls EXCEPT ![i].pres = [r |-> r, err |-> e],
                                    ![i].pc = "Panicked"]
          /\ UNCHANGED <<req, latency>>
     ELSE LET l == ObserveLabels(ObservedMethod(me.op), facade.cfg.RpcName, e = NilError) IN
          /\ req' = VecAdd(req, l)
          /\ latency' = VecAdd(latency, l)
          /\ calls' = [calls EXCEPT
               ![i].pres = [r |-> r, err |-> e],
               ![i].trace = Append(@, <<"observe", l[1], l[2], l[3]>>),
               ![i].pc = AfterPrimary(e),
               ![i].ret = IF AfterPrimary(e) = "Success"
                          THEN [r |-> r, err |-> NilError] ELSE @]
  /\ UNCHANGED <<env, loaded>>
  /\ UNCHANGED scalarVars
  /\ UNCHANGED lifeVars

CClassify(i) ==
  LET me == Locals(calls, i) IN
  /\ calls[i].pc = "Failed"
  /\ IF ~shouldFailover(me.pres.err)
     THEN calls' = [calls EXCEPT ![i].pc = "NoFailover", ![i].ret = me.pres]
     ELSE calls' = [calls EXCEPT
            ![i].pc = "FailoverInFlight",
            ![i].trace = Append(@, <<"call", FailoverConn, SecondaryMethod(me.op), me.args>>)]
  /\ UNCHANGED <<req, latency, env, loaded>>
  /\ UNCHANGED scalarVars
  /\ UNCHANGED lifeVars

CSecondaryReturn(i, r, e) ==
  LET me == Locals(calls, i) IN
  /\ calls[i].pc = "FailoverInFlight"
  /\ e \in ErrorsUnder(calls[i].ctx)
  /\ r \in Results(calls[i].op)
  /\ IF facade.metrics = "nil"
     THEN /\ calls' = [calls EXCEPT ![i].sres = [r |-> r, err |-> e],
                                    ![i].pc = "Panicked"]
          /\ UNCHANGED <<req, latency>>
     ELSE LET l == ObserveLabels(ObservedMethod(me.op), facade.cfg.FailoverRpcName, e = NilError) IN
          /\ req' = VecAdd(req, l)
          /\ latency' = VecAdd(latency, l)
          /\ calls' = [calls EXCEPT
               ![i].sres = [r |-> r, err |-> e],
               ![i].trace = Append(@, <<"observe", l[1], l[2], l[3]>>),
               ![i].pc = "Terminal",
               ![i].ret = FailoverReturn(me.pres, [r |-> r, err |-> e])]
  /\ UNCHANGED <<env, loaded>>
  /\ UNCHANGED scalarVars
  /\ UNCHANGED lifeVars

\* ------------------------------------------------------------------------
\* Config from the environment (src/unnamed/part_000, ConfigFromEnv)
\* ------------------------------------------------------------------------

\* a variable that is not set
Unset == "<unset>"

Fields == {"EnablePrometheus", "RpcUrl", "RpcName", "FailoverRpcUrl", "FailoverRpcName"}

\* environments offered to ConfigFromEnv
Env == [EnablePrometheus : {Unset, "true", "false", "maybe"},
        RpcUrl : {Unset} \cup Urls, RpcName : {Unset} \cup Names,
        FailoverRpcUrl : {Unset} \cup Urls, FailoverRpcName : {Unset} \cup Names]

NoEnv == [f \in Fields |-> Unset]

NoLoaded == [state |-> "none", by |-> "-", cfg |-> NoConfig]

DefaultEnvPrefix == "ethclient"

\* variant: only the URLs are tagged required
RequiredUrlsOnly(f) == f \in {"RpcUrl", "FailoverRpcUrl"}

\* the `required:"true"` struct tags of Config
Required(f) == f \in {"RpcUrl", "RpcName", "FailoverRpcUrl", "FailoverRpcName"}

\* the `default:"..."` struct tags of Config, "" when there is none
DefaultOf(f) == IF f = "EnablePrometheus" THEN "true" ELSE ""

\* envconfig: a required variable without default is not set
MissingRequired(e) ==
  \E f \in Fields : e[f] = Unset /\ DefaultOf(f) = "" /\ Required(f)

\* envconfig: the string a field is decoded from
FieldValue(e, f) == IF e[f] = Unset THEN DefaultOf(f) ELSE e[f]

\* strconv.ParseBool fails on this string
ParseBoolFails(v) == v \notin {"true", "false"}

\* strconv.ParseBool on a string it accepts
ParseBool(v) == v = "true"

\* envconfig.Process returns an error
ProcessFails(e) ==
  MissingRequired(e) \/ ParseBoolFails(FieldValue(e, "EnablePrometheus"))

\* the Config envconfig.Process fills in
ProcessedConfig(e) ==
  [EnablePrometheus |-> ParseBool(FieldValue(e, "EnablePrometheus")),
   RpcUrl |-> FieldValue(e, "RpcUrl"), RpcName |-> FieldValue(e, "RpcName"),
   FailoverRpcUrl |-> FieldValue(e, "FailoverRpcUrl"),
   FailoverRpcName |-> FieldValue(e, "FailoverRpcName")]

\* envconfig.MustProcess panics on an error; a Config that fails Valid ends the
\* process in log.Fatal; otherwise the Config is returned
FromEnv(e, by) ==
  IF ProcessFails(e) THEN [state |-> "panic", by |-> by, cfg |-> NoConfig]
  ELSE IF Valid(ProcessedConfig(e)) # NilError
       THEN [state |-> "fatal", by |-> by, cfg |-> NoConfig]
  ELSE [state |-> "config", by |-> by, cfg |-> ProcessedConfig(e)]

\* ConfigFromEnv()
ConfigFromEnv ==
  /\ loaded.state = "none"
  /\ loaded' = FromEnv(env, DefaultEnvPrefix)
  /\ UNCHANGED <<env, calls>>
  /\ UNCHANGED lifeVars
  /\ UNCHANGED callVars

\* ConfigFromEnvPrefix(prefix)
ConfigFromEnvPrefix(prefix) ==
  /\ loaded.state = "none"
  /\ loaded' = FromEnv(env, prefix)
  /\ UNCHANGED <<env, calls>>
  /\ UNCHANGED lifeVars
  /\ UNCHANGED callVars

\* ------------------------------------------------------------------------
\* Specifications
\* ------------------------------------------------------------------------

NoCall ==
  /\ req = EmptyVec
  /\ latency = EmptyVec
  /\ invoked = 0
  /\ pc = "Idle"
  /\ op = "-"
  /\ args = "-"
  /\ ctx = "live"
  /\ pres = NoPair
  /\ sres = NoPair
  /\ ret = NoPair
  /\ trace = << >>

NoExtra ==
  /\ env = NoEnv
  /\ loaded = NoLoaded
  /\ calls = << >>

\* configs of the facades whose dispatch is explored: distinct names, equal
\* names, recorder present and absent
DispatchConfigs ==
  {c \in Config : /\ c.RpcUrl = "https://rpc.example"
                  /\ c.FailoverRpcUrl = "https://rpc.example"
                  /\ c.RpcName = "nodereal"
                  /\ c.FailoverRpcName \in {"nodereal", "alchemy"}}

\* a facade as New("my-app", "ethereum", cfg) returns it in a fresh process
Init ==
  /\ \E cfg \in DispatchConfigs :
       /\ facade = NewFacade("my-app", "ethereum", cfg)
       /\ conn = NewConn(cfg, TRUE, TRUE)
       /\ registry = IF cfg.EnablePrometheus
                     THEN Register({}, "my-app", "ethereum") ELSE {}
       /\ lastNew = [called |-> TRUE, app |-> "my-app", chain |-> "ethereum",
                     cfg |-> cfg, dialM |-> TRUE, dialB |-> TRUE,
                     outcome |-> NewOutcome({}, "my-app", "ethereum", cfg, TRUE, TRUE),
                     before |-> {}, verr |-> Valid(cfg)]
  /\ news = 1
  /\ NoCall
  /\ NoExtra

Next ==
  \/ \E o \in Ops, a \in Args : Invoke(o, a)
  \/ \E c \in CtxStates : CtxDone(c)
  \/ \E r \in {NoResult, "v1", "v2"}, e \in ErrorsUnder("canceled") \cup ErrorsUnder("deadline") :
       PrimaryReturn(r, e)
  \/ Classify
  \/ \E r \in {NoResult, "v1", "v2"}, e \in ErrorsUnder("canceled") \cup ErrorsUnder("deadline") :
       SecondaryReturn(r, e)

Spec == Init /\ [][Next]_vars

\* a fresh process: nothing constructed, nothing registered
InitNew ==
  /\ facade = NoFacade
  /\ conn = [m |-> "none", b |-> "none"]
  /\ registry = {}
  /\ lastNew = NoNew
  /\ news = 0
  /\ NoCall
  /\ NoExtra

NextNew ==
  \/ \E an \in AppNames, ch \in ChainNames, cfg \in Config, dm \in BOOLEAN, db \in BOOLEAN :
       New(an, ch, cfg, dm, db)
  \/ Close

SpecNew == InitNew /\ [][NextNew]_vars

\* a starting process: some environment, no Config loaded yet
InitEnv ==
  /\ facade = NoFacade
  /\ conn = [m |-> "none", b |-> "none"]
  /\ registry = {}
  /\ lastNew = NoNew
  /\ news = 0
  /\ NoCall
  /\ env \in Env
  /\ loaded = NoLoaded
  /\ calls = << >>

NextEnv ==
  \/ ConfigFromEnv
  \/ \E prefix \in {"ethereum"} : ConfigFromEnvPrefix(prefix)

SpecEnv == InitEnv /\ [][NextEnv]_vars

\* configs of the facades whose concurrent use is explored
ConcConfigs ==
  {c \in Config : /\ c.RpcUrl = "https://rpc.example"
                  /\ c.FailoverRpcUrl = "https://rpc.example"
                  /\ c.RpcName = "nodereal"
                  /\ c.FailoverRpcName = "alchemy"}

\* a constructed facade that no caller has entered yet
InitConc ==
  /\ \E cfg \in ConcConfigs :
       /\ facade = NewFacade("my-app", "ethereum", cfg)
       /\ conn = NewConn(cfg, TRUE, TRUE)
       /\ registry = IF cfg.EnablePrometheus
                     THEN Register({}, "my-app", "ethereum") ELSE {}
       /\ lastNew = [called |-> TRUE, app |-> "my-app", chain |-> "ethereum",
                     cfg |-> cfg, dialM |-> TRUE, dialB |-> TRUE,
                     outcome |-> NewOutcome({}, "my-app", "ethereum", cfg, TRUE, TRUE),
                     before |-> {}, verr |-> Valid(cfg)]
  /\ news = 1
  /\ NoCall
  /\ env = NoEnv
  /\ loaded = NoLoaded
  /\ calls = [i \in ConcIds |-> IdleCall]

NextConc ==
  \/ \E i \in ConcIds, o \in ConcOps, a \in {"args1"} : CInvoke(i, o, a)
  \/ \E i \in ConcIds, c \in ConcCtx : CCtxDone(i, c)
  \/ \E i \in ConcIds, r \in ConcResults, e \in ErrorsUnder("canceled") : CPrimaryReturn(i, r, e)
  \/ \E i \in ConcIds : CClassify(i)
  \/ \E i \in ConcIds, r \in ConcResults, e \in ErrorsUnder("canceled") : CSecondaryReturn(i, r, e)

SpecConc == InitConc /\ [][NextConc]_vars

\* the sequential dispatch with the returns of the physical calls and the
\* classification weakly fair: a physical call that was issued returns
SpecLive ==
  /\ Init /\ [][Next]_vars
  /\ WF_vars(\E r \in {NoResult, "v1", "v2"}, e \in ErrorsUnder("canceled") \cup ErrorsUnder("deadline") :
               PrimaryReturn(r, e))
  /\ WF_vars(Classify)
  /\ WF_vars(\E r \in {NoResult, "v1", "v2"}, e \in ErrorsUnder("canceled") \cup ErrorsUnder("deadline") :
               SecondaryReturn(r, e))

\* ------------------------------------------------------------------------
\* Properties
\* ------------------------------------------------------------------------

\* errors.Unwrap: the wrapped error, NilError when there is none
Unwrap(e) ==
  IF e = UrlErrCanceled THEN Canceled
  ELSE IF e = UrlErrDeadline THEN DeadlineExceeded
  ELSE NilError

\* errors.Is over the (at most one level deep) error values of the model
ErrorsIs(e, target) == e = target \/ (Unwrap(e) # NilError /\ Unwrap(e) = target)

\* the error reports cancellation or deadline expiry of the caller's context
IsCancellation(e) == ErrorsIs(e, Canceled) \/ ErrorsIs(e, DeadlineExceeded)

\* the physical calls of the current invocation made on connection who
TraceCalls(who) == SelectSeq(trace, LAMBDA ev : ev[1] = "call" /\ ev[2] = who)

\* the observations of the current invocation
Observations == SelectSeq(trace, LAMBDA ev : ev[1] = "observe")

\* the primary attempt of the current invocation has returned
PrimaryDone == pres # NoPair

\* C1: with metrics enabled, a primary error that is not a cancellation or
\* deadline error leads to exactly one call of the same operation on the backup
\* connection and exactly two observations: {client = RpcName, success = false},
\* recorded before the backup is called, then {client = FailoverRpcName,
\* success = (backup error is nil)}.
C1_FailoverOnce ==
  (facade.metrics = "set" /\ pc \in Returned /\ PrimaryDone
     /\ pres.err # NilError /\ ~IsCancellation(pres.err)) =>
    /\ pc = "Terminal"
    /\ Len(trace) = 4
    /\ trace[1][1] = "call" /\ trace[1][2] = "m"
    /\ trace[2][1] = "observe" /\ trace[2][3] = facade.cfg.RpcName /\ trace[2][4] = "false"
    /\ trace[3] = <<"call", "b", op, args>>
    /\ trace[4][1] = "observe" /\ trace[4][3] = facade.cfg.FailoverRpcName
    /\ trace[4][4] = FormatBool(sres.err = NilError)

\* C1 witness: SendTransaction failed on the primary with a transport error and
\* succeeded on the backup
C1_Witness ==
  /\ facade.metrics = "set" /\ pc = "Terminal" /\ op = "SendTransaction"
  /\ pres.err = ErrTransport /\ sres.err = NilError
  /\ Len(Observations) = 2

\* C2: with metrics enabled, a primary attempt that returns a nil error leaves
\* the backup connection uncalled, records exactly one observation
\* {client = RpcName, success = true}, and returns the primary's result with a
\* nil error.
C2_PrimarySuccess ==
  (facade.metrics = "set" /\ PrimaryDone /\ pres.err = NilError) =>
    /\ pc = "Success"
    /\ Len(TraceCalls("b")) = 0
    /\ Len(Observations) = 1
    /\ Observations[1][3] = facade.cfg.RpcName /\ Observations[1][4] = "true"
    /\ ret = [r |-> pres.r, err |-> NilError]

\* C2 witness: BalanceAt answered by the primary
C2_Witness ==
  /\ facade.metrics = "set" /\ pc = "Success" /\ op = "BalanceAt"
  /\ pres = [r |-> "v1", err |-> NilError] /\ ret.r = "v1"

\* C3: with metrics enabled, a primary attempt that fails with a cancellation
\* or deadline error leaves the backup connection uncalled, records exactly one
\* observation {client = RpcName, success = false}, and returns exactly the
\* primary's error.
C3_CancellationNoFailover ==
  (facade.metrics = "set" /\ pc \in Returned /\ PrimaryDone /\ IsCancellation(pres.err)) =>
    /\ Len(TraceCalls("b")) = 0
    /\ Len(Observations) = 1
    /\ Observations[1][3] = facade.cfg.RpcName /\ Observations[1][4] = "false"
    /\ ret.err = pres.err

\* C4: on a facade constructed with metrics disabled no invocation panics in
\* its observation step.
C4_DisabledMetricsNoPanic ==
  (facade.live /\ ~facade.cfg.EnablePrometheus) => pc # "Panicked"

\* C5: the pair returned to the caller is the primary attempt's pair when no
\* backup attempt was made and the backup attempt's pair when one was made.
C5_ReturnsLastAttempt ==
  pc \in Returned =>
    IF Len(TraceCalls("b")) = 0 THEN ret = pres /\ sres = NoPair
    ELSE ret = sres

\* C5 witness: the backup attempt failed with another error and another result
\* than the primary attempt, and the call returned
C5_Witness ==
  /\ pc = "Terminal" /\ pres.err = ErrTransport /\ sres.err = ErrRPC
  /\ pres.r = "v1" /\ sres.r = "v2" /\ ret.err = ErrRPC

\* the transitions of the per-call state machine
Transitions ==
  {<<"Idle", "PrimaryInFlight">>,
   <<"PrimaryInFlight", "Success">>, <<"PrimaryInFlight", "Failed">>,
   <<"Failed", "NoFailover">>, <<"Failed", "FailoverInFlight">>,
   <<"FailoverInFlight", "Terminal">>}

\* C6: every invocation makes exactly one call on the primary connection,
\* first, and at most one on the backup connection, only after the primary
\* returned an error; its state changes only along Transitions (a new
\* invocation starts in PrimaryInFlight; a panic unwinds the invocation and is
\* no state of the machine).
C6_SingleShot ==
  /\ [](pc # "Idle" =>
          /\ Len(TraceCalls("m")) = 1
          /\ trace[1][2] = "m"
          /\ Len(TraceCalls("b")) <= 1
          /\ (Len(TraceCalls("b")) = 1 => PrimaryDone /\ pres.err # NilError)
          /\ Len(trace) <= 4)
  /\ [][ /\ invoked' # invoked => pc' = "PrimaryInFlight"
         /\ (invoked' = invoked /\ pc' # pc /\ pc' # "Panicked") =>
              <<pc, pc'>> \in Transitions ]_vars

\* C6 witness: an invocation that went through the failover path
C6_Witness ==
  /\ pc = "Terminal" /\ Len(TraceCalls("m")) = 1 /\ Len(TraceCalls("b")) = 1
  /\ invoked = 2

\* C7: a non-nil primary error is classified NoFailover exactly when it
\* reports cancellation or deadline expiry of the context, bare or wrapped.
C7_PolicyIffCancellation ==
  pc \in {"NoFailover", "FailoverInFlight", "Terminal"} =>
    ((pc = "NoFailover") <=> IsCancellation(pres.err))

\* C8: every observation carries the operation's own name as its method label.
C8_MethodLabelIsOpName ==
  \A i \in 1..Len(Observations) : Observations[i][2] = op

\* C9: when the context is done at the time the primary attempt returns an
\* error, the backup connection is not called.
C9_DoneContextNoFailover ==
  [][(pc = "Failed" /\ ctx # "live") => pc' # "FailoverInFlight"]_vars

\* C10: New returns a facade exactly when the config is valid and both dials
\* succeed; otherwise it returns an error, no facade, and registers nothing;
\* collectors are registered only by a successful New with metrics enabled.
C10_NewFacadeIff ==
  lastNew.called =>
    /\ (lastNew.outcome = "facade") <=>
         (Valid(lastNew.cfg) = NilError /\ lastNew.dialM /\ lastNew.dialB)
    /\ lastNew.outcome # "facade" =>
         (lastNew.outcome = "error" /\ registry = lastNew.before)
    /\ registry # lastNew.before =>
         (lastNew.outcome = "facade" /\ lastNew.cfg.EnablePrometheus)
    /\ (lastNew.outcome = "facade" /\ lastNew.cfg.EnablePrometheus) =>
         newMetrics(lastNew.app, lastNew.chain) \subseteq registry

\* a facade built with metrics enabled has been torn down by Close
ClosedWithMetrics ==
  /\ ~facade.live /\ conn.m = "closed"
  /\ lastNew.outcome = "facade" /\ lastNew.cfg.EnablePrometheus

\* C11: after Close of a facade constructed with metrics enabled, its request
\* counter and latency histogram are no longer registered.
C11_CloseUnregisters ==
  ClosedWithMetrics => newMetrics(lastNew.app, lastNew.chain) \cap registry = {}

\* C12: every Close issues a close on the main and on the backup handle.
C12_CloseClosesBoth ==
  [][(facade.live /\ ~facade'.live) => (conn'.m = "closed" /\ conn'.b = "closed")]_vars

\* C12 witness: a facade was constructed and closed, both handles are closed
C12_Witness ==
  /\ lastNew.outcome = "facade" /\ ~facade.live
  /\ conn = [m |-> "closed", b |-> "closed"]

\* C15: Config.Valid returns an error exactly when the primary name or the
\* failover name has length 32 or more, whatever the endpoint URLs are.
C15_ValidIffShortNames ==
  lastNew.called =>
    ((lastNew.verr # NilError) <=>
       (Len(lastNew.cfg.RpcName) >= 32 \/ Len(lastNew.cfg.FailoverRpcName) >= 32))

\* C15 witness: names of length 0 and 31 next to an empty URL are accepted
C15_Witness ==
  /\ lastNew.called /\ lastNew.verr = NilError
  /\ lastNew.cfg.RpcName = "" /\ Len(lastNew.cfg.FailoverRpcName) = 31
  /\ lastNew.cfg.RpcUrl = ""

\* C16: the Config of every constructed facade has non-empty endpoints,
\* non-empty names, and names shorter than 32 characters.
C16_ConfigInvariant ==
  facade.live =>
    /\ facade.cfg.RpcUrl # "" /\ facade.cfg.FailoverRpcUrl # ""
    /\ facade.cfg.RpcName # "" /\ facade.cfg.FailoverRpcName # ""
    /\ Len(facade.cfg.RpcName) < 32 /\ Len(facade.cfg.FailoverRpcName) < 32

\* C14: every invocation, whatever the earlier invocations on the facade did,
\* makes its first attempt on the main connection and decides about failover
\* from that attempt's own error alone; an invocation changes nothing in the
\* facade.
C14_NoStateBetweenCalls ==
  /\ [](pc # "Idle" => trace[1] = <<"call", "m", op, args>>)
  /\ [](pc \in {"NoFailover", "FailoverInFlight", "Terminal"} =>
          ((pc = "NoFailover") <=> pres.err \in {Canceled, DeadlineExceeded}))
  /\ [][facade' = facade /\ conn' = conn]_vars

\* C14 witness: the first invocation was served by the backup, the second one
\* went to the primary and was served by it
C14_Witness ==
  /\ invoked = 2 /\ pc = "Success" /\ trace[1][2] = "m"
  /\ \E l \in DOMAIN req : l[2] = "alchemy" /\ l[3] = "true"

\* C18: register on already registered collectors (a second construction with
\* the same appName and chainName and metrics enabled) does not fail and
\* leaves them registered.
C18_RegisterIdempotent ==
  (/\ lastNew.called /\ lastNew.verr = NilError /\ lastNew.dialM /\ lastNew.dialB
   /\ lastNew.cfg.EnablePrometheus
   /\ newMetrics(lastNew.app, lastNew.chain) \subseteq lastNew.before) =>
    /\ lastNew.outcome = "facade"
    /\ newMetrics(lastNew.app, lastNew.chain) \subseteq registry

\* the four required variables are set
AllRequiredSet ==
  /\ env.RpcUrl # Unset /\ env.RpcName # Unset
  /\ env.FailoverRpcUrl # Unset /\ env.FailoverRpcName # Unset

\* C17: ConfigFromEnv yields a Config only when the four required variables
\* are set and both names are shorter than 32; when one is unset or a name is
\* too long it ends fatally without a Config; when the metrics flag is unset
\* the Config has metrics enabled.
C17_ConfigFromEnv ==
  loaded.state # "none" =>
    /\ loaded.state = "config" =>
         /\ AllRequiredSet
         /\ Len(env.RpcName) < 32 /\ Len(env.FailoverRpcName) < 32
         /\ loaded.cfg.RpcName = env.RpcName
         /\ loaded.cfg.FailoverRpcName = env.FailoverRpcName
         /\ loaded.cfg.RpcUrl = env.RpcUrl
         /\ loaded.cfg.FailoverRpcUrl = env.FailoverRpcUrl
    /\ (~AllRequiredSet \/ env.RpcName = Name32 \/ env.FailoverRpcName = Name32) =>
         (loaded.state \in {"panic", "fatal"} /\ loaded.cfg = NoConfig)
    /\ (loaded.state = "config" /\ env.EnablePrometheus = Unset) =>
         loaded.cfg.EnablePrometheus

\* C17 witness: a Config was built from an environment without the metrics flag
C17_Witness ==
  /\ loaded.state = "config" /\ env.EnablePrometheus = Unset
  /\ loaded.cfg.EnablePrometheus /\ loaded.cfg.RpcName = "nodereal"

\* the value of a vector at a label tuple, 0 when the child does not exist
CountAt(vec, l) == IF l \in DOMAIN vec THEN vec[l] ELSE 0

\* the client label of a connection
ClientOf(who) == IF who = "m" THEN facade.cfg.RpcName ELSE facade.cfg.FailoverRpcName

\* the attempts of operation o made on connection who that ended with outcome ok
Attempts(o, who, ok) ==
  Cardinality({i \in ConcIds :
     /\ calls[i].op = o
     /\ LET p == IF who = "m" THEN calls[i].pres ELSE calls[i].sres IN
          p # NoPair /\ ((p.err = NilError) = ok)})

\* C13: under concurrent invocations every request counter is non-decreasing,
\* and once all invocations have returned the counter of {operation, client,
\* success} equals the number of attempts made with that operation on that
\* endpoint with that outcome.
C13_CountersExact ==
  /\ [][\A l \in DOMAIN req : l \in DOMAIN req' /\ req'[l] >= req[l]]_vars
  /\ []((\A i \in ConcIds : calls[i].pc \in Returned) =>
          \A o \in ConcOps, who \in {"m", "b"}, ok \in BOOLEAN :
             CountAt(req, <<o, ClientOf(who), FormatBool(ok)>>) = Attempts(o, who, ok))

\* an invocation with these endpoint responses, run alone, fails over
SoloFailsOver(c) ==
  c.pres.err # NilError /\ c.pres.err \notin {Canceled, DeadlineExceeded}

\* what it returns when run alone
SoloRet(c) == IF SoloFailsOver(c) THEN c.sres ELSE c.pres

\* its physical calls and observations when run alone
SoloTrace(c) ==
  << <<"call", "m", c.op, c.args>>,
     <<"observe", ObservedMethod(c.op), facade.cfg.RpcName, FormatBool(c.pres.err = NilError)>> >>
  \o (IF SoloFailsOver(c)
      THEN << <<"call", "b", c.op, c.args>>,
              <<"observe", ObservedMethod(c.op), facade.cfg.FailoverRpcName,
                FormatBool(c.sres.err = NilError)>> >>
      ELSE << >>)

\* C19: whatever the interleaving, an invocation that returns has the returned
\* pair, the backup calls and the observations it has when run alone against
\* the same endpoint responses.
C19_NoInterference ==
  \A i \in ConcIds :
    calls[i].pc \in Returned =>
      /\ calls[i].ret = SoloRet(calls[i])
      /\ calls[i].trace = SoloTrace(calls[i])
      /\ (~SoloFailsOver(calls[i]) => calls[i].sres = NoPair)

\* C19 witness: one invocation returned through the failover path while an
\* invocation of another operation is between its two attempts
C19_Witness ==
  /\ calls[1].pc = "Terminal" /\ calls[1].op = "BalanceAt"
  /\ calls[1].pres.err = ErrRPC /\ calls[1].sres.err = NilError
  /\ calls[2].pc = "FailoverInFlight" /\ calls[2].op = "TransactionByHash"
  /\ calls[2].pres.err = UrlErrCanceled

\* C20: every invocation that was started eventually returns to its caller.
C20_Terminates ==
  (pc \in {"PrimaryInFlight", "Failed", "FailoverInFlight"}) ~> (pc \in Returned)

\* C21: when failover occurs the backup attempt is the same logical operation
\* as the primary attempt: the call on the backup connection names the method
\* of the primary call and carries the argument tuple of the primary call, and
\* the step that issues it leaves the operation, the arguments and the
\* caller's context token as they were.
C21_SameOperation ==
  /\ [](\A i \in 1..Len(TraceCalls("b")) :
          /\ Len(TraceCalls("m")) = 1
          /\ TraceCalls("b")[i][3] = TraceCalls("m")[1][3]
          /\ TraceCalls("b")[i][4] = TraceCalls("m")[1][4]
          /\ TraceCalls("b")[i][3] = op
          /\ TraceCalls("b")[i][4] = args)
  /\ [][(pc = "Failed" /\ pc' = "FailoverInFlight") =>
          (op' = op /\ args' = args /\ ctx' = ctx)]_vars

\* C21 witness: StorageAt failed on the primary and was answered by the backup
C21_Witness ==
  /\ pc = "Terminal" /\ op = "StorageAt" /\ args = "args2"
  /\ Len(TraceCalls("b")) = 1
  /\ sres.err = NilError

\* C22: whenever New returns an error, no connection handle that it opened
\* during that call is still open; in particular the main handle is closed
\* when the backup dial fails.
C22_FailedNewLeavesNothingOpen ==
  (lastNew.called /\ lastNew.outcome = "error") =>
    (conn.m # "open" /\ conn.b # "open")

\* C23: on every facade that construction accepts, the observation of a
\* primary attempt and the observation of a backup attempt carry different
\* client labels, so the two endpoints never share a label tuple.
C23_ClientLabelsDistinct ==
  (facade.live /\ pc = "Terminal" /\ Len(Observations) = 2) =>
    Observations[1][3] # Observations[2][3]

====
